---- MODULE Spec2Model ----
(***************************************************************************)
(* homeassistant/util/json.py: load_json, save_json and                    *)
(* find_paths_unserializable_data, over a small POSIX-like file system.    *)
(*                                                                         *)
(* Python values are tagged tuples:                                        *)
(*   <<"int", n>>  <<"str", s>>  <<"obj", "o">>  <<"dt", "t">>             *)
(*   <<"list", <<v1, ..., vn>> >>                                          *)
(*   <<"dict", << <<k1, v1>>, ..., <<kn, vn>> >> >>   (insertion order)    *)
(* "obj" is an object no encoder accepts (object()); "dt" is a             *)
(* datetime, which json.dumps rejects and orjson.dumps encodes.            *)
(* File content is a sequence of JSON tokens (each token a string).        *)
(***************************************************************************)
EXTENDS Integers, Sequences, FiniteSets, TLC

\* ------------------------------------------------------------------ bounds
MaxCalls == 2      \* save_json calls in one behaviour
NumSavers == 2     \* caller threads that may run save_json
BufferLen == 4     \* tokens the write buffer holds before it is flushed
MaxNodes == 4      \* nodes of the values handed to the encoder on its own

\* ------------------------------------------------------------ python values
PyInt(n) == <<"int", n>>
PyStr(s) == <<"str", s>>
Obj == <<"obj", "o">>
Dt == <<"dt", "t">>
PyList(elems) == <<"list", elems>>
PyDict(items) == <<"dict", items>>
PyNone == <<"none", "">>

IsDict(v) == v[1] = "dict"
IsList(v) == v[1] = "list"

Strs == {"1", "a", "b"}
Ints == {1}

\* str(n) for the integers of the model
IntStr(n) == CASE n = 1 -> "1"

\* code-point order of the strings of the model ("1" < "a" < "b")
StrRank(s) == CASE s = "1" -> 1 [] s = "a" -> 2 [] s = "b" -> 3

\* ------------------------------------------------------- json.dumps (stdlib)
\* keys json.dumps converts to a string (str, int); anything else: TypeError
JsonKeyOk(k) == k[1] \in {"str", "int"}

\* a sort that accepts keys of mixed types
KeysSortableAny(items) == TRUE

\* sort_keys=True sorts dct.items(); '<' between str and int (or between
\* two plain objects) is a TypeError
KeysSortable(items) ==
    \A i, j \in 1..Len(items) :
        i # j => /\ items[i][1][1] = items[j][1][1]
                 /\ items[i][1][1] \in {"str", "int"}

RECURSIVE JsonDumpsRaises(_)
JsonDumpsRaises(v) ==
    CASE v[1] \in {"int", "str"} -> FALSE
      [] v[1] = "list" -> \E i \in 1..Len(v[2]) : JsonDumpsRaises(v[2][i])
      [] v[1] = "dict" ->
            \/ ~KeysSortable(v[2])
            \/ \E i \in 1..Len(v[2]) :
                  ~JsonKeyOk(v[2][i][1]) \/ JsonDumpsRaises(v[2][i][2])
      [] OTHER -> TRUE

KeyRank(k) == IF k[1] = "int" THEN k[2] ELSE StrRank(k[2])

\* sort_keys left out: insertion order
SortItemsNone(items) == items

\* sorted(dct.items()) for mutually comparable keys
RECURSIVE SortItems(_)
SortItems(items) ==
    IF Len(items) <= 1 THEN items
    ELSE LET m == CHOOSE i \in 1..Len(items) :
                     \A j \in 1..Len(items) :
                         KeyRank(items[i][1]) <= KeyRank(items[j][1])
             rest == [i \in 1..(Len(items) - 1) |->
                         IF i < m THEN items[i] ELSE items[i + 1]]
         IN  <<items[m]>> \o SortItems(rest)

\* the key as json.dumps writes it: str keys as they are, int keys as str(n)
JsonKeyStr(k) == IF k[1] = "int" THEN IntStr(k[2]) ELSE k[2]

IntLit(n) == IntStr(n)
StrLit(s) == CASE s = "1" -> "\"1\"" [] s = "a" -> "\"a\"" [] s = "b" -> "\"b\""
NumLits == {IntLit(n) : n \in Ints}
StrLits == {StrLit(s) : s \in Strs}
NumOf(t) == CHOOSE n \in Ints : IntLit(n) = t
StrOf(t) == CHOOSE s \in Strs : StrLit(s) = t

\* newline plus indent=4 spaces per nesting level
Indent(level) == CASE level = 0 -> "\n"
                   [] level = 1 -> "\n    "
                   [] level = 2 -> "\n        "
                   [] OTHER -> "\n            "
WhiteSpace == {Indent(l) : l \in 0..3}

RECURSIVE JsonDumpsAt(_, _)
RECURSIVE JsonJoin(_, _, _)
\* the entries of a container, ",\n<indent>" between them
JsonJoin(parts, level, i) ==
    IF i > Len(parts) THEN <<>>
    ELSE (IF i > 1 THEN <<",">> ELSE <<>>)
         \o <<Indent(level)>> \o parts[i] \o JsonJoin(parts, level, i + 1)

JsonDumpsAt(v, level) ==
    CASE v[1] = "int" -> <<IntLit(v[2])>>
      [] v[1] = "str" -> <<StrLit(v[2])>>
      [] v[1] = "list" ->
            IF Len(v[2]) = 0 THEN <<"[", "]">>
            ELSE <<"[">>
                 \o JsonJoin([i \in 1..Len(v[2]) |->
                                 JsonDumpsAt(v[2][i], level + 1)], level + 1, 1)
                 \o <<Indent(level), "]">>
      [] v[1] = "dict" ->
            IF Len(v[2]) = 0 THEN <<"{", "}">>
            ELSE LET items == SortItems(v[2])
                 IN  <<"{">>
                     \o JsonJoin([i \in 1..Len(items) |->
                                     <<StrLit(JsonKeyStr(items[i][1])), ": ">>
                                     \o JsonDumpsAt(items[i][2], level + 1)],
                                 level + 1, 1)
                     \o <<Indent(level), "}">>

\* json.dumps(data, sort_keys=True, indent=4) when it does not raise
JsonDumps(v) == JsonDumpsAt(v, 0)

\* --------------------------------------------------------------- orjson.loads
ParseFail == [ok |-> FALSE, val |-> PyNone, pos |-> 0]

RECURSIVE SkipWs(_, _)
SkipWs(toks, i) ==
    IF i <= Len(toks) /\ toks[i] \in WhiteSpace THEN SkipWs(toks, i + 1) ELSE i

\* d[key] = val on an insertion-ordered dict (a repeated key keeps its place)
DictSet(items, key, val) ==
    IF \E i \in 1..Len(items) : items[i][1] = key
    THEN [i \in 1..Len(items) |->
             IF items[i][1] = key THEN <<key, val>> ELSE items[i]]
    ELSE Append(items, <<key, val>>)

RECURSIVE ParseValue(_, _)
RECURSIVE ParseElems(_, _, _)
RECURSIVE ParseMembers(_, _, _)

ParseElems(toks, i, acc) ==
    LET r == ParseValue(toks, i)
        j == SkipWs(toks, r.pos)
    IN  IF ~r.ok \/ j > Len(toks) THEN ParseFail
        ELSE IF toks[j] = "," THEN ParseElems(toks, j + 1, Append(acc, r.val))
        ELSE IF toks[j] = "]"
             THEN [ok |-> TRUE, val |-> PyList(Append(acc, r.val)), pos |-> j + 1]
        ELSE ParseFail

ParseMembers(toks, i, acc) ==
    LET k == SkipWs(toks, i)
        c == SkipWs(toks, k + 1)
    IN  IF k > Len(toks) \/ c > Len(toks) THEN ParseFail
        ELSE IF toks[k] \notin StrLits \/ toks[c] # ": " THEN ParseFail
        ELSE LET r == ParseValue(toks, c + 1)
                 j == SkipWs(toks, r.pos)
                 acc2 == DictSet(acc, PyStr(StrOf(toks[k])), r.val)
             IN  IF ~r.ok \/ j > Len(toks) THEN ParseFail
                 ELSE IF toks[j] = "," THEN ParseMembers(toks, j + 1, acc2)
                 ELSE IF toks[j] = "}"
                      THEN [ok |-> TRUE, val |-> PyDict(acc2), pos |-> j + 1]
                 ELSE ParseFail

ParseValue(toks, i0) ==
    LET i == SkipWs(toks, i0)
    IN  IF i > Len(toks) THEN ParseFail
        ELSE IF toks[i] \in NumLits
             THEN [ok |-> TRUE, val |-> PyInt(NumOf(toks[i])), pos |-> i + 1]
        ELSE IF toks[i] \in StrLits
             THEN [ok |-> TRUE, val |-> PyStr(StrOf(toks[i])), pos |-> i + 1]
        ELSE IF toks[i] = "["
             THEN LET j == SkipWs(toks, i + 1)
                  IN  IF j <= Len(toks) /\ toks[j] = "]"
                      THEN [ok |-> TRUE, val |-> PyList(<<>>), pos |-> j + 1]
                      ELSE ParseElems(toks, i + 1, <<>>)
        ELSE IF toks[i] = "{"
             THEN LET j == SkipWs(toks, i + 1)
                  IN  IF j <= Len(toks) /\ toks[j] = "}"
                      THEN [ok |-> TRUE, val |-> PyDict(<<>>), pos |-> j + 1]
                      ELSE ParseMembers(toks, i + 1, <<>>)
        ELSE ParseFail

\* orjson.loads(text): the value, or ok = FALSE for JSONDecodeError (ValueError)
OrjsonLoads(toks) ==
    LET r == ParseValue(toks, 1)
    IN  IF r.ok /\ SkipWs(toks, r.pos) > Len(toks) THEN r ELSE ParseFail

\* ------------------------------------------------------------ python equality
RECURSIVE PyEq(_, _)
PyEq(a, b) ==
    IF a[1] # b[1] THEN FALSE
    ELSE CASE a[1] = "list" ->
                /\ Len(a[2]) = Len(b[2])
                /\ \A i \in 1..Len(a[2]) : PyEq(a[2][i], b[2][i])
           [] a[1] = "dict" ->
                /\ Len(a[2]) = Len(b[2])
                /\ \A i \in 1..Len(a[2]) :
                      \E j \in 1..Len(b[2]) :
                          /\ a[2][i][1] = b[2][j][1]
                          /\ PyEq(a[2][i][2], b[2][j][2])
           [] OTHER -> a = b

\* ---------------------------------------------- orjson.dumps and the finder
\* orjson.dumps(obj) raises TypeError: a plain object, or a dict key that is
\* not a str (orjson takes no int keys); a datetime is encoded
RECURSIVE OrjsonDumpsRaises(_)
OrjsonDumpsRaises(v) ==
    CASE v[1] \in {"int", "str", "dt", "none"} -> FALSE
      [] v[1] = "list" -> \E i \in 1..Len(v[2]) : OrjsonDumpsRaises(v[2][i])
      [] v[1] = "dict" ->
            \E i \in 1..Len(v[2]) :
                v[2][i][1][1] # "str" \/ OrjsonDumpsRaises(v[2][i][2])
      [] OTHER -> TRUE

\* f"{key}" and f"{idx}"
KeyRender(k) == CASE k[1] = "int" -> IntStr(k[2])
                  [] k[1] = "str" -> k[2]
                  [] OTHER -> "<object>"

\* a loop that records no key
DictInvalidNone(items, obj_path, i) == <<>>

\* the for loop over obj.items(): findings for the keys orjson rejects
RECURSIVE DictInvalid(_, _, _)
DictInvalid(items, obj_path, i) ==
    IF i > Len(items) THEN <<>>
    ELSE (IF OrjsonDumpsRaises(PyDict(<< <<items[i][1], PyNone>> >>))
          THEN <<Append(obj_path, <<"<key: ", KeyRender(items[i][1])>>)>>
          ELSE <<>>)
         \o DictInvalid(items, obj_path, i + 1)

\* the values of all entries enqueued, whatever the key
DictEnqueuedAll(items, obj_path, i) ==
    [j \in 1..Len(items) |->
        <<items[j][2], Append(obj_path, <<".", KeyRender(items[j][1])>>)>>]

\* the for loop over obj.items(): the values enqueued for the keys it accepts
RECURSIVE DictEnqueued(_, _, _)
DictEnqueued(items, obj_path, i) ==
    IF i > Len(items) THEN <<>>
    ELSE (IF OrjsonDumpsRaises(PyDict(<< <<items[i][1], PyNone>> >>))
          THEN <<>>
          ELSE << <<items[i][2],
                    Append(obj_path, <<".", KeyRender(items[i][1])>>)>> >>)
         \o DictEnqueued(items, obj_path, i + 1)

\* the list itself enqueued once per element
ListEnqueuedWhole(elems, obj_path) ==
    [i \in 1..Len(elems) |-> <<PyList(elems), Append(obj_path, <<"[", i - 1>>)>>]

\* the for loop over enumerate(obj): every element enqueued, in index order
ListEnqueued(elems, obj_path) ==
    [i \in 1..Len(elems) |-> <<elems[i], Append(obj_path, <<"[", i - 1>>)>>]

\* the while loop of find_paths_unserializable_data
RECURSIVE FindLoop(_, _)
FindLoop(to_process, invalid) ==
    IF Len(to_process) = 0 THEN invalid
    ELSE LET obj == to_process[1][1]
             obj_path == to_process[1][2]
             rest == Tail(to_process)
         IN  IF ~OrjsonDumpsRaises(obj) THEN FindLoop(rest, invalid)
             ELSE IF IsDict(obj)
                  THEN FindLoop(rest \o DictEnqueued(obj[2], obj_path, 1),
                                invalid \o DictInvalid(obj[2], obj_path, 1))
             ELSE IF IsList(obj)
                  THEN FindLoop(rest \o ListEnqueued(obj[2], obj_path), invalid)
             ELSE FindLoop(rest, Append(invalid, obj_path))

find_paths_unserializable_data(bad_data) ==
    FindLoop(<< <<bad_data, <<"$">> >> >>, <<>>)

\* ------------------------------------------------------------- the file system
ModePrivate == 384     \* 0o600, the mode NamedTemporaryFile creates with
ModePublic == 420      \* 0o644
PreModes == {416}       \* 0o640, a mode save_json never sets

NoFile == -1
FileIds == 0..MaxCalls      \* 0: the file found at start; k: k-th temp file
\* link: the path under which a temp file was created, <<>> for other files
FreeInode == [data |-> <<>>, mode |-> 0, link |-> <<>>]

\* the spellings of the target path: absolute, and bare with the process in
\* the target's directory
Cwd == "/config"
AbsFilename == "/config/x.json"
BareFilename == "x.json"
Filenames == {AbsFilename, BareFilename}

\* os.path.split(path): (head, tail)
OsPathSplit(path) ==
    CASE path = "/config/x.json" -> <<"/config", "x.json">>
      [] path = "x.json" -> <<"", "x.json">>

\* the directory a dir argument or the head of a path names: "" is the
\* working directory
DirOf(dir) == IF dir = "" THEN Cwd ELSE dir

\* the temp file put into the system's temp directory (dir=None)
TmpPathSystem(filename) == "/tmp"

\* line 66: tmp_path = os.path.split(filename)[0]
TmpPath(filename) == OsPathSplit(filename)[1]

\* the names NamedTemporaryFile draws from (tmp<random>), and no name ("")
TmpNames == 1..MaxCalls
NoName == <<>>

\* what save_json may be handed, and what load_json may be handed as default
SaveData == {PyDict(<< <<PyStr("a"), PyInt(1)>> >>),
             PyDict(<< <<PyInt(1), PyInt(1)>> >>),
             PyDict(<< <<PyStr("a"), Obj>> >>),
             PyDict(<< <<Obj, PyInt(1)>> >>),
             PyDict(<< <<PyStr("a"), PyInt(1)>>, <<PyInt(1), PyInt(1)>> >>),
             PyList(<<Dt>>)}
Defaults == {PyNone, PyList(<<>>), PyDict(<< <<PyStr("a"), PyInt(1)>> >>)}

\* content found at the target path before the first call: a complete
\* document (["a"]), or the malformed text "{not json"
PreValid == <<"[", Indent(1), StrLit("a"), Indent(0), "]">>
PreMalformed == <<"{", "not", "json">>

Procs == 1..NumSavers

VARIABLES
    fs,        \* inode: FileIds -> [data, mode]; target: the inode linked at
               \* filename (or NoFile); tmpdir: inodes linked under a temp name
    saver,     \* per caller thread: the locals of its save_json call
    reader,    \* the locals of the load_json call
    prov,      \* history: for each inode, the call that wrote it
    lastOk,    \* history: data of the latest save_json that returned normally
    calls,     \* save_json calls started
    probe,     \* the encoder on its own: value given, bytes produced
    finder     \* the locals of a find_paths_unserializable_data call

vars == <<fs, saver, reader, prov, lastOk, calls, probe, finder>>

\* by: "valid" / "malformed" (found at start), "temp" (a temp file of a
\* save_json call), "save" (data, put at filename by a save_json call)
Prov(by, data, private) == [by |-> by, data |-> data, private |-> private]
FreeProv == Prov("free", PyNone, FALSE)
AbsentProv == Prov("absent", PyNone, FALSE)

IdleSaver == [pc |-> "idle", callno |-> 0, filename |-> "", data |-> PyNone,
              private |-> FALSE,
              json_data |-> <<>>, fdesc |-> NoFile, tmp_filename |-> NoName,
              err |-> "", paths |-> <<>>, fault |-> "", cleanup |-> "",
              before |-> [target |-> <<>>, temps |-> {}]]

IdleProbe == [v0 |-> PyNone, v |-> PyNone, first |-> <<>>, out |-> <<>>]

\* to_process: the deque of (obj, obj_path); invalid: the paths found.
\* History: popped, the obj_path of every item dequeued so far; at, for each
\* entry of invalid the depth of the item that was being processed
IdleFinder == [pc |-> "idle", bad_data |-> PyNone, to_process |-> <<>>,
               invalid |-> <<>>, popped |-> <<>>, at |-> <<>>]

IdleReader == [pc |-> "idle", default |-> PyNone, fdesc |-> NoFile,
               res |-> [kind |-> "", val |-> PyNone, exc |-> "", cause |-> "",
                        fault |-> ""],
               seen |-> {}]

\* what a process can observe at filename: nothing, or content and mode
TargetView(f) == IF f.target = NoFile THEN <<>> ELSE <<f.inode[f.target]>>

\* what a process can observe in the directory
View(f) == [target |-> TargetView(f),
            temps |-> {<<n, f.inode[n]>> : n \in f.tmpdir}]

\* an inode with no link and no open descriptor is freed
Collect(f, open) ==
    [f EXCEPT !.inode = [i \in FileIds |->
        IF i = f.target \/ i \in f.tmpdir \/ i \in open
        THEN f.inode[i] ELSE FreeInode]]

OpenIds(sv, rd) == {sv[p].fdesc : p \in Procs} \cup {rd.fdesc}

\* the linked temp file a path names, NoFile if there is none
Lookup(f, path) ==
    IF \E i \in f.tmpdir : f.inode[i].link = path
    THEN CHOOSE i \in f.tmpdir : f.inode[i].link = path
    ELSE NoFile

\* a temp file opened at filename itself
MkstempAtTarget(f, id, dir, n) ==
    [f EXCEPT !.inode[id] = [data |-> <<>>, mode |-> ModePrivate,
                             link |-> <<DirOf(dir), n>>],
              !.tmpdir = @ \cup {id}, !.target = id]

\* tempfile.NamedTemporaryFile(dir=tmp_path, delete=False): a new inode in
\* directory dir under a name no file there has, created with mode 0o600
Mkstemp(f, id, dir, n) ==
    [f EXCEPT !.inode[id] = [data |-> <<>>, mode |-> ModePrivate,
                             link |-> <<DirOf(dir), n>>],
              !.tmpdir = @ \cup {id}]

\* the bytes that have reached the file after n tokens were flushed
Flushed(f, id, json_data, n) ==
    [f EXCEPT !.inode[id].data = SubSeq(json_data, 1, n)]

\* a close that drops what is still buffered
FlushedOnCloseLost(f, id, json_data) == f

\* leaving the with block closes the file, which flushes the buffered rest
FlushedOnClose(f, id, json_data) ==
    [f EXCEPT !.inode[id].data = json_data]

\* a chmod of filename instead of tmp_filename
OsChmodTarget(f, path, mode) ==
    IF f.target = NoFile THEN f ELSE [f EXCEPT !.inode[f.target].mode = mode]

\* os.chmod(path, mode) of a temp file that exists
OsChmod(f, path, mode) == [f EXCEPT !.inode[Lookup(f, path)].mode = mode]

\* a replace that never happens
OsReplaceSkipped(f, path) == f

\* os.replace(path, filename) of a temp file that exists: one step, the old
\* inode loses its link, the temp name is free again
OsReplace(f, path) ==
    [f EXCEPT !.target = Lookup(f, path), !.tmpdir = @ \ {Lookup(f, path)},
              !.inode[Lookup(f, path)].link = <<>>]

\* os.remove(path) of a temp file that exists
OsRemove(f, path) == [f EXCEPT !.tmpdir = @ \ {Lookup(f, path)}]

\* os.path.exists(tmp_filename); tmp_filename = "" names no file
OsPathExists(f, path) == path # NoName /\ Lookup(f, path) # NoFile

Init ==
    /\ \E pre \in {"absent", "valid", "malformed"}, m \in PreModes :
          /\ fs = [inode |-> [i \in FileIds |->
                        IF i = 0 /\ pre # "absent"
                        THEN [data |-> IF pre = "valid" THEN PreValid
                                       ELSE PreMalformed,
                              mode |-> m, link |-> <<>>]
                        ELSE FreeInode],
                   target |-> IF pre = "absent" THEN NoFile ELSE 0,
                   tmpdir |-> {}]
          /\ prov = [i \in FileIds |->
                        IF i = 0 /\ pre # "absent" THEN Prov(pre, PyNone, FALSE)
                        ELSE FreeProv]
    /\ saver = [p \in Procs |-> IdleSaver]
    /\ reader = IdleReader
    /\ lastOk = PyNone
    /\ calls = 0
    /\ probe = IdleProbe
    /\ finder = IdleFinder

\* ------------------------------------------------------------------ save_json
ProvAfter(f, open, pv) ==
    [i \in FileIds |->
        IF i = f.target \/ i \in f.tmpdir \/ i \in open THEN pv[i] ELSE FreeProv]

\* the caller keeps to one save_json at a time on the path
Exclusive == \A q \in Procs : saver[q].pc = "idle"

\* a call that has its result hands it to its caller before any other
\* thread takes a step (returning touches no file)
NoReturnDue == reader.pc # "done" /\ \A q \in Procs : saver[q].pc # "done"

\* history: what was linked at filename between load_json's open and read
ReaderSees(rd, pv) ==
    IF rd.pc = "read" THEN [rd EXCEPT !.seen = @ \cup {pv}] ELSE rd

\* lines 57-66: json.dumps; TypeError -> SerializationError with the paths
SaveCall(p, filename, d, priv) ==
    /\ saver[p].pc = "idle"
    /\ NoReturnDue
    /\ calls < MaxCalls
    /\ calls' = calls + 1
    /\ LET s0 == [IdleSaver EXCEPT !.callno = calls + 1,
                                   !.filename = filename, !.data = d,
                                   !.private = priv,
                                   !.before = View(fs)]
       IN  saver' = [saver EXCEPT ![p] =
              IF JsonDumpsRaises(d)
              THEN [s0 EXCEPT !.pc = "done", !.err = "SerializationError",
                              !.paths = find_paths_unserializable_data(d)]
              ELSE [s0 EXCEPT !.pc = "create", !.json_data = JsonDumps(d)]]
    /\ UNCHANGED <<fs, reader, prov, lastOk>>
    /\ UNCHANGED <<probe, finder>>

\* the error class save_json raises for an exception of the try block
\* (lines 77-79: except OSError: raise WriteError(error))
SaveErrorFor(exc) == IF exc = "OSError" THEN "WriteError" ELSE exc

\* an OSError raised inside the try block at the named step: the with block
\* (if entered) closes the file, the except clause runs, finally is next
Raise(s, step) ==
    [s EXCEPT !.pc = "finally", !.err = SaveErrorFor("OSError"),
              !.fault = step, !.fdesc = NoFile]

\* lines 66-71: NamedTemporaryFile(mode="w", dir=tmp_path, delete=False),
\* the file getting name n, which no file in that directory has
CreateNamed(p, n) ==
    /\ saver[p].pc = "create"
    /\ NoReturnDue
    /\ Lookup(fs, <<DirOf(TmpPath(saver[p].filename)), n>>) = NoFile
    /\ \/ /\ fs' = Mkstemp(fs, saver[p].callno, TmpPath(saver[p].filename), n)
          /\ prov' = [prov EXCEPT ![saver[p].callno] =
                         Prov("temp", PyNone, saver[p].private)]
          /\ saver' = [saver EXCEPT ![p].pc = "write",
                                    ![p].fdesc = saver[p].callno]
       \/ /\ saver' = [saver EXCEPT ![p] = Raise(@, "create")]
          /\ UNCHANGED <<fs, prov>>
    /\ UNCHANGED <<reader, lastOk, calls>>
    /\ UNCHANGED <<probe, finder>>

\* with one call at a time a temp name is free again only when its file is
\* gone and no running call holds it, so which free name is drawn cannot be
\* observed: the k-th call draws name k
Create(p) ==
    /\ saver[p].pc = "create"
    /\ CreateNamed(p, saver[p].callno)

\* tokens of json_data that fdesc.write hands to the file: whole buffers
WrittenThrough(json_data) == (Len(json_data) \div BufferLen) * BufferLen

\* lines 72-73: fdesc.write(json_data), then tmp_filename = fdesc.name.
\* A write that fails (after k whole buffers) leaves the with block with
\* tmp_filename still ""
Write(p) ==
    /\ saver[p].pc = "write"
    /\ NoReturnDue
    /\ \/ /\ fs' = Flushed(fs, saver[p].fdesc, saver[p].json_data,
                           WrittenThrough(saver[p].json_data))
          /\ saver' = [saver EXCEPT
                          ![p].pc = "close",
                          ![p].tmp_filename = fs.inode[saver[p].fdesc].link]
          /\ UNCHANGED prov
       \/ \E k \in 0..((Len(saver[p].json_data) \div BufferLen) - 1) :
             /\ saver' = [saver EXCEPT ![p] = Raise(@, "write")]
             /\ fs' = Collect(Flushed(fs, saver[p].fdesc, saver[p].json_data,
                                      k * BufferLen),
                              OpenIds(saver', reader))
             /\ prov' = ProvAfter(fs', OpenIds(saver', reader), prov)
    /\ UNCHANGED <<reader, lastOk, calls>>
    /\ UNCHANGED <<probe, finder>>

\* line 71, end of the with block: close, which flushes what is buffered
Close(p) ==
    /\ saver[p].pc = "close"
    /\ NoReturnDue
    /\ \/ /\ saver' = [saver EXCEPT ![p].pc = "chmod", ![p].fdesc = NoFile]
          /\ fs' = Collect(FlushedOnClose(fs, saver[p].fdesc,
                                          saver[p].json_data),
                           OpenIds(saver', reader))
       \/ /\ saver' = [saver EXCEPT ![p] = Raise(@, "close")]
          /\ fs' = Collect(fs, OpenIds(saver', reader))
    /\ prov' = ProvAfter(fs', OpenIds(saver', reader), prov)
    /\ UNCHANGED <<reader, lastOk, calls>>
    /\ UNCHANGED <<probe, finder>>

\* the test of line 74 inverted
ModeForInverted(private, mode) == IF private THEN ModePublic ELSE mode

\* the mode the temp file has after lines 74-75
ModeFor(private, mode) == IF ~private THEN ModePublic ELSE mode

\* lines 74-75: if not private: os.chmod(tmp_filename, 0o644); a file that
\* is gone makes os.chmod raise FileNotFoundError, an OSError
Chmod(p) ==
    /\ saver[p].pc = "chmod"
    /\ NoReturnDue
    /\ \/ /\ saver[p].private \/ OsPathExists(fs, saver[p].tmp_filename)
          /\ fs' = IF OsPathExists(fs, saver[p].tmp_filename)
                   THEN OsChmod(fs, saver[p].tmp_filename,
                                ModeFor(saver[p].private,
                                        fs.inode[Lookup(fs, saver[p].tmp_filename)].mode))
                   ELSE fs
          /\ saver' = [saver EXCEPT ![p].pc = "replace"]
       \/ /\ ~saver[p].private
          /\ saver' = [saver EXCEPT ![p] = Raise(@, "chmod")]
          /\ UNCHANGED fs
    /\ UNCHANGED <<reader, prov, lastOk, calls>>
    /\ UNCHANGED <<probe, finder>>

\* line 76: os.replace(tmp_filename, filename); a file that is gone makes
\* it raise FileNotFoundError, an OSError
Replace(p) ==
    /\ saver[p].pc = "replace"
    /\ NoReturnDue
    /\ \/ /\ OsPathExists(fs, saver[p].tmp_filename)
          /\ fs' = Collect(OsReplace(fs, saver[p].tmp_filename),
                           OpenIds(saver, reader))
          /\ prov' = ProvAfter(fs', OpenIds(saver, reader),
                               [prov EXCEPT
                                   ![Lookup(fs, saver[p].tmp_filename)] =
                                       Prov("save", saver[p].data,
                                            saver[p].private)])
          /\ reader' = ReaderSees(reader,
                                  prov'[Lookup(fs, saver[p].tmp_filename)])
          /\ saver' = [saver EXCEPT ![p].pc = "finally"]
       \/ /\ saver' = [saver EXCEPT ![p] = Raise(@, "replace")]
          /\ UNCHANGED <<fs, prov, reader>>
    /\ UNCHANGED <<lastOk, calls>>
    /\ UNCHANGED <<probe, finder>>

\* an OSError of os.remove that is raised out of the finally block
CleanupErrorEscalated(s) ==
    [s EXCEPT !.pc = "done", !.cleanup = "failed", !.err = "OSError"]

\* lines 84-87: except OSError as err: _LOGGER.error(...); nothing is raised,
\* the call ends as it would have without the cleanup
CleanupError(s) == [s EXCEPT !.pc = "done", !.cleanup = "failed"]

\* lines 80-87: finally: if os.path.exists(tmp_filename): os.remove(...),
\* an OSError of os.remove being logged and dropped
Finally(p) ==
    /\ saver[p].pc = "finally"
    /\ NoReturnDue
    /\ IF OsPathExists(fs, saver[p].tmp_filename)
       THEN \/ /\ fs' = Collect(OsRemove(fs, saver[p].tmp_filename),
                                OpenIds(saver, reader))
               /\ prov' = ProvAfter(fs', OpenIds(saver, reader), prov)
               /\ saver' = [saver EXCEPT ![p].pc = "done"]
            \/ /\ saver' = [saver EXCEPT ![p] = CleanupError(@)]
               /\ UNCHANGED <<fs, prov>>
       ELSE /\ saver' = [saver EXCEPT ![p].pc = "done"]
            /\ UNCHANGED <<fs, prov>>
    /\ UNCHANGED <<reader, lastOk, calls>>
    /\ UNCHANGED <<probe, finder>>

\* save_json returns, or its exception reaches the caller
Return(p) ==
    /\ saver[p].pc = "done"
    /\ saver' = [saver EXCEPT ![p] = IdleSaver]
    /\ lastOk' = IF saver[p].err = "" THEN saver[p].data ELSE lastOk
    /\ UNCHANGED <<fs, reader, prov, calls>>
    /\ UNCHANGED <<probe, finder>>

\* str(error) of the exception the failing call raised, as the names it
\* holds: the OSError of open() and of os.replace names the paths it was
\* given, that of NamedTemporaryFile and os.chmod the temp file, that of a
\* read, write or close no file, a JSONDecodeError only a position
ErrorStr(call) ==
    CASE call = "open" -> {"filename"}
      [] call = "replace" -> {"tmp_filename", "filename"}
      [] call \in {"create", "chmod"} -> {"tmp_filename"}
      [] OTHER -> {}

\* line 60 (the f-string with filename and the paths) and line 79
\* (WriteError(error)): what the message of the raised error holds
SaveMessage(s) ==
    IF s.err = "SerializationError" THEN {"filename", "paths"}
    ELSE ErrorStr(s.fault)

\* lines 39 and 42: HomeAssistantError(error)
LoadMessage(res) == ErrorStr(res.fault)

\* ------------------------------------------------------------------ load_json
\* "default or {}": an empty list default is lost
DefaultOrFalsy(default) ==
    IF default \in {PyNone, PyList(<<>>)} THEN PyDict(<<>>) ELSE default

\* line 43: return {} if default is None else default
DefaultOr(default) == IF default = PyNone THEN PyDict(<<>>) ELSE default

\* lines 37-42: both handlers raise HomeAssistantError(error)
LoadErrorFor(cause) ==
    CASE cause = "ValueError" -> "HomeAssistantError"
      [] cause = "OSError" -> "HomeAssistantError"

LoadValue(v) == [kind |-> "value", val |-> v, exc |-> "", cause |-> "",
                 fault |-> ""]
\* a decode failure swallowed like FileNotFoundError
LoadErrorSwallowed(cause) ==
    IF cause = "ValueError" THEN LoadValue(DefaultOr(reader.default))
    ELSE [kind |-> "error", val |-> PyNone,
          exc |-> LoadErrorFor(cause), cause |-> cause, fault |-> ""]

LoadError(cause) == [kind |-> "error", val |-> PyNone,
                     exc |-> LoadErrorFor(cause), cause |-> cause, fault |-> ""]

\* the call of the with statement that raised
FailedIn(res, call) == IF res.kind = "error" THEN [res EXCEPT !.fault = call]
                       ELSE res

\* line 32: open(filename); FileNotFoundError falls through to line 43
LoadOpen(default) ==
    /\ reader.pc = "idle"
    /\ NoReturnDue
    /\ LET r0 == [IdleReader EXCEPT
                     !.default = default,
                     !.seen = {IF fs.target = NoFile THEN AbsentProv
                               ELSE prov[fs.target]}]
       IN  IF fs.target = NoFile
           THEN reader' = [r0 EXCEPT !.pc = "done",
                                     !.res = LoadValue(DefaultOr(default))]
           ELSE \/ reader' = [r0 EXCEPT !.pc = "read", !.fdesc = fs.target]
                \/ reader' = [r0 EXCEPT !.pc = "done",
                                        !.res = FailedIn(LoadError("OSError"),
                                                         "open")]
    /\ UNCHANGED <<fs, saver, prov, lastOk, calls>>
    /\ UNCHANGED <<probe, finder>>

\* line 33: orjson.loads(fdesc.read()), and the file is closed
LoadRead ==
    /\ reader.pc = "read"
    /\ NoReturnDue
    /\ LET r == OrjsonLoads(fs.inode[reader.fdesc].data)
           open == OpenIds(saver, [reader EXCEPT !.fdesc = NoFile])
       IN  /\ \/ reader' = [reader EXCEPT
                    !.pc = "done", !.fdesc = NoFile,
                    !.res = IF r.ok THEN LoadValue(r.val)
                            ELSE FailedIn(LoadError("ValueError"), "loads")]
              \/ reader' = [reader EXCEPT !.pc = "done", !.fdesc = NoFile,
                                          !.res = FailedIn(LoadError("OSError"),
                                                           "read")]
           /\ fs' = Collect(fs, open)
           /\ prov' = ProvAfter(fs', open, prov)
    /\ UNCHANGED <<saver, lastOk, calls>>
    /\ UNCHANGED <<probe, finder>>

\* load_json returns, or its exception reaches the caller
LoadReturn ==
    /\ reader.pc = "done"
    /\ reader' = IdleReader
    /\ UNCHANGED <<fs, saver, prov, lastOk, calls>>
    /\ UNCHANGED <<probe, finder>>

\* ------------------------------------------------------------- specification
\* the caller thread of the single-writer discipline (spec section 5)
SeqProcs == {1}

\* a save_json call made when no other is running
Call(p, d, priv) == Exclusive /\ SaveCall(p, AbsFilename, d, priv)

Next ==
    \/ \E p \in SeqProcs, d \in SaveData, priv \in BOOLEAN : Call(p, d, priv)
    \/ \E p \in Procs : Create(p)
    \/ \E p \in Procs : Write(p)
    \/ \E p \in Procs : Close(p)
    \/ \E p \in Procs : Chmod(p)
    \/ \E p \in Procs : Replace(p)
    \/ \E p \in Procs : Finally(p)
    \/ \E p \in Procs : Return(p)
    \/ \E default \in Defaults : LoadOpen(default)
    \/ LoadRead
    \/ LoadReturn

Spec == Init /\ [][Next]_vars

\* ------------------------------------- two callers that do not take turns
\* the threads of the two calls, and what they save
ConcProcs == {1, 2}
ConcData(p) == IF p = 1 THEN {PyDict(<< <<PyStr("a"), PyInt(1)>> >>)}
               ELSE {PyDict(<< <<PyStr("b"), PyInt(1)>> >>)}

\* a save_json call made whether or not another one is running
CallInterleaved(p, filename, d, priv) ==
    /\ calls < Cardinality(ConcProcs)
    /\ SaveCall(p, filename, d, priv)

NextConc ==
    \/ \E p \in ConcProcs, filename \in Filenames, priv \in BOOLEAN :
          \E d \in ConcData(p) : CallInterleaved(p, filename, d, priv)
    \/ \E p \in Procs, n \in TmpNames : CreateNamed(p, n)
    \/ \E p \in Procs : Write(p)
    \/ \E p \in Procs : Close(p)
    \/ \E p \in Procs : Chmod(p)
    \/ \E p \in Procs : Replace(p)
    \/ \E p \in Procs : Finally(p)
    \/ \E p \in Procs : Return(p)

SpecConc == Init /\ [][NextConc]_vars

\* ------------------------------------------------- the encoder on its own
\* the dicts that hold the values of sequence s, in that order, under
\* distinct keys of K
DictsOver(s, K) ==
    {PyDict([i \in 1..Len(s) |-> <<ks[i], s[i]>>]) :
        ks \in {k \in [1..Len(s) -> K] :
                   \A i, j \in 1..Len(s) : i # j => k[i] # k[j]}}

\* the values of exactly n nodes over the leaves L and the keys K, and the
\* sequences of such values of m nodes in all
RECURSIVE ValuesOfSize(_, _, _)
RECURSIVE SeqsOfSize(_, _, _)
ValuesOfSize(n, L, K) ==
    IF n = 1 THEN L
    ELSE {PyList(s) : s \in SeqsOfSize(n - 1, L, K)}
         \cup UNION {DictsOver(s, K) : s \in SeqsOfSize(n - 1, L, K)}

SeqsOfSize(m, L, K) ==
    IF m = 0 THEN {<<>>}
    ELSE UNION {{<<v>> \o s : v \in ValuesOfSize(j, L, K),
                              s \in SeqsOfSize(m - j, L, K)} : j \in 1..m}

\* data: Union[List, Dict] of at most max nodes, its leaves 1, [] and {},
\* its keys "a", "b" and 1
DumpsLeaves == {PyInt(1), PyList(<<>>), PyDict(<<>>)}
DumpsKeys == {PyStr("a"), PyStr("b"), PyInt(1)}
PureValues(max) ==
    {v \in UNION {ValuesOfSize(n, DumpsLeaves, DumpsKeys) : n \in 1..max} :
        IsList(v) \/ IsDict(v)}

SwapAt(items, i) ==
    [k \in 1..Len(items) |->
        IF k = i THEN items[i + 1] ELSE IF k = i + 1 THEN items[i] ELSE items[k]]

\* the values equal to v that differ from it by the insertion order of two
\* neighbouring entries of one dict, at any depth
RECURSIVE Reorders(_)
Reorders(v) ==
    CASE v[1] = "list" ->
            UNION {{PyList([v[2] EXCEPT ![i] = w]) : w \in Reorders(v[2][i])} :
                      i \in 1..Len(v[2])}
      [] v[1] = "dict" ->
            {PyDict(SwapAt(v[2], i)) : i \in 1..(Len(v[2]) - 1)}
            \cup UNION {{PyDict([v[2] EXCEPT ![i] = <<v[2][i][1], w>>]) :
                            w \in Reorders(v[2][i][2])} : i \in 1..Len(v[2])}
      [] OTHER -> {}

InitPure ==
    /\ fs = [inode |-> [i \in FileIds |-> FreeInode], target |-> NoFile,
             tmpdir |-> {}]
    /\ prov = [i \in FileIds |-> FreeProv]
    /\ saver = [p \in Procs |-> IdleSaver]
    /\ reader = IdleReader
    /\ lastOk = PyNone
    /\ calls = 0
    /\ \E v \in PureValues(MaxNodes) :
          probe = [IdleProbe EXCEPT !.v0 = v, !.v = v]
    /\ finder = IdleFinder

\* line 58: json.dumps(data, sort_keys=True, indent=4) of the value at hand
ProbeDumps ==
    /\ ~JsonDumpsRaises(probe.v)
    /\ probe' = [probe EXCEPT
                    !.out = JsonDumps(probe.v),
                    !.first = IF @ = <<>> THEN JsonDumps(probe.v) ELSE @]
    /\ UNCHANGED <<fs, saver, reader, prov, lastOk, calls, finder>>

\* the caller builds the same mapping again, its entries in another order
ProbeReorder ==
    /\ \E w \in Reorders(probe.v) : probe' = [probe EXCEPT !.v = w]
    /\ UNCHANGED <<fs, saver, reader, prov, lastOk, calls, finder>>

NextPure == ProbeDumps \/ ProbeReorder

SpecPure == InitPure /\ [][NextPure]_vars

\* --------------------------------------------------- the finder on its own
\* bad_data: the values of at most max nodes over the leaves 1 and object()
\* and the keys "a", "b", 1 and object(), and the value
\* {"a": 1, "b": object(), "c": [1, object()]}
FindLeaves == {PyInt(1), Obj}
FindKeys == {PyStr("a"), PyStr("b"), PyInt(1), Obj}
FindExample ==
    PyDict(<< <<PyStr("a"), PyInt(1)>>, <<PyStr("b"), Obj>>,
              <<PyStr("c"), PyList(<<PyInt(1), Obj>>)>> >>)
FindValues(max) ==
    UNION {ValuesOfSize(n, FindLeaves, FindKeys) : n \in 1..max}
    \cup {FindExample}

InitFind ==
    /\ fs = [inode |-> [i \in FileIds |-> FreeInode], target |-> NoFile,
             tmpdir |-> {}]
    /\ prov = [i \in FileIds |-> FreeProv]
    /\ saver = [p \in Procs |-> IdleSaver]
    /\ reader = IdleReader
    /\ lastOk = PyNone
    /\ calls = 0
    /\ probe = IdleProbe
    /\ finder = IdleFinder

\* a stack: the item appended last is taken first
PopRight(q) == [item |-> q[Len(q)], rest |-> SubSeq(q, 1, Len(q) - 1)]

\* line 99: to_process.popleft()
Popleft(q) == [item |-> Head(q), rest |-> Tail(q)]

\* a probe that never lets a node pass
EncodesNever(obj) == FALSE

\* lines 101-105: orjson.dumps(obj) returned, the loop continues
Encodes(obj) == ~OrjsonDumpsRaises(obj)

\* the depth of the node an obj_path leads to ("$" is depth 0)
Depth(obj_path) == Len(obj_path) - 1

\* lines 95-96: to_process = deque([(bad_data, "$")]); invalid = []
FindCall ==
    /\ finder.pc = "idle"
    /\ \E v \in FindValues(MaxNodes) :
          finder' = [IdleFinder EXCEPT !.pc = "loop", !.bad_data = v,
                                      !.to_process = << <<v, <<"$">> >> >>]
    /\ UNCHANGED <<fs, saver, reader, prov, lastOk, calls, probe>>

\* lines 98-121: one pass of the while loop
FindPop ==
    /\ finder.pc = "loop"
    /\ Len(finder.to_process) > 0
    /\ LET pop == Popleft(finder.to_process)
           obj == pop.item[1]
           obj_path == pop.item[2]
           found == IF Encodes(obj) THEN <<>>
                    ELSE IF IsDict(obj) THEN DictInvalid(obj[2], obj_path, 1)
                    ELSE IF IsList(obj) THEN <<>>
                    ELSE <<obj_path>>
           more == IF Encodes(obj) THEN <<>>
                   ELSE IF IsDict(obj) THEN DictEnqueued(obj[2], obj_path, 1)
                   ELSE IF IsList(obj) THEN ListEnqueued(obj[2], obj_path)
                   ELSE <<>>
       IN  finder' = [finder EXCEPT
               !.to_process = pop.rest \o more,
               !.invalid = @ \o found,
               !.popped = Append(@, obj_path),
               !.at = @ \o [i \in 1..Len(found) |-> Depth(obj_path)]]
    /\ UNCHANGED <<fs, saver, reader, prov, lastOk, calls, probe>>

\* lines 98 and 123: the deque is empty, return invalid
FindExit ==
    /\ finder.pc = "loop"
    /\ Len(finder.to_process) = 0
    /\ finder' = [finder EXCEPT !.pc = "done"]
    /\ UNCHANGED <<fs, saver, reader, prov, lastOk, calls, probe>>

\* the caller has the list
FindReturn ==
    /\ finder.pc = "done"
    /\ finder' = IdleFinder
    /\ UNCHANGED <<fs, saver, reader, prov, lastOk, calls, probe>>

NextFind ==
    \/ FindCall
    \/ FindPop
    \/ FindExit
    \/ FindReturn

SpecFind == InitFind /\ [][NextFind]_vars

\* the call runs on one thread that is never stopped for good
SpecFindLive == SpecFind /\ WF_vars(FindPop) /\ WF_vars(FindExit)

\* ---------------------------------------------------------------- properties
Returned(p) == saver[p].pc = "done"
Loaded == reader.pc = "done"

\* the value a complete read of the content described by pv decodes to
DecodedFrom(pv, default) ==
    CASE pv.by = "absent" -> IF default = PyNone THEN PyDict(<<>>) ELSE default
      [] pv.by = "valid" -> PyList(<<PyStr("a")>>)
      [] pv.by = "save" -> OrjsonLoads(JsonDumps(pv.data)).val
      [] OTHER -> PyNone

\* C1: the target path is absent (no file was there at the start of the
\* running call and no save has succeeded), or holds the complete content
\* found at start, or the complete serialization of a saved value; never an
\* empty or truncated file.
C1_TargetComplete ==
    IF fs.target = NoFile
    THEN /\ lastOk = PyNone
         /\ \A p \in Procs :
               /\ saver[p].before.target = <<>>
               /\ (Returned(p) => saver[p].err # "")
    ELSE LET f == fs.inode[fs.target]
             pv == prov[fs.target]
         IN  \/ pv.by = "valid" /\ f.data = PreValid
             \/ pv.by = "malformed" /\ f.data = PreMalformed
             \/ /\ pv.by = "save"
                /\ f.data = JsonDumps(pv.data)
                /\ Len(f.data) > 0
                /\ OrjsonLoads(f.data).ok

\* a second call failed in fdesc.write while the target holds the first
\* call's content
C1_Witness ==
    \E p \in Procs :
        /\ Returned(p) /\ saver[p].fault = "write"
        /\ fs.target # NoFile /\ prov[fs.target].by = "save"

\* C2: once a save_json call has returned or raised, no temp file it created
\* is left in the directory.
C2_NoTempLeft ==
    \A p \in Procs : Returned(p) => saver[p].callno \notin fs.tmpdir

\* C3: an OS failure in temp creation, write, close, chmod or replace makes
\* the call fail with WriteError and leaves the target's content and mode as
\* they were before the call.
C3_FailureLeavesTarget ==
    \A p \in Procs :
        (Returned(p) /\ saver[p].fault # "")
            => /\ saver[p].err = "WriteError"
               /\ TargetView(fs) = saver[p].before.target

\* the replace failed (temp fully written) over an existing target
C3_Witness ==
    \E p \in Procs :
        /\ Returned(p) /\ saver[p].fault = "replace"
        /\ saver[p].before.target # <<>>

\* a value json.dumps(sort_keys=True) cannot serialize: it holds a plain
\* object or a datetime, a key that is neither str nor int, or a dict whose
\* keys are of different types
RECURSIVE HasBadPart(_)
HasBadPart(v) ==
    CASE v[1] \in {"obj", "dt"} -> TRUE
      [] v[1] = "list" -> \E i \in 1..Len(v[2]) : HasBadPart(v[2][i])
      [] v[1] = "dict" ->
            \/ \E i \in 1..Len(v[2]) :
                  \/ v[2][i][1][1] \notin {"str", "int"}
                  \/ HasBadPart(v[2][i][2])
            \/ \E i, j \in 1..Len(v[2]) : v[2][i][1][1] # v[2][j][1][1]
      [] OTHER -> FALSE

\* C4: a value that cannot be serialized makes save_json fail with
\* SerializationError, and that call does nothing to the file system: no
\* temp file, target content and mode as before.
C4_SerializationErrorNoEffect ==
    \A p \in Procs :
        /\ (saver[p].pc # "idle" /\ HasBadPart(saver[p].data))
              => Returned(p) /\ saver[p].err = "SerializationError"
        /\ (Returned(p) /\ saver[p].err = "SerializationError")
              => /\ View(fs) = saver[p].before
                 /\ fs.inode[saver[p].callno] = FreeInode

\* an unserializable value was refused while the target held a file
C4_Witness ==
    \E p \in Procs :
        /\ Returned(p) /\ saver[p].err = "SerializationError"
        /\ saver[p].before.target # <<>>

\* a load that saw nothing but the content the target holds now, with no
\* save_json running and some save_json having succeeded
QuietLoad ==
    /\ Loaded /\ Exclusive
    /\ fs.target # NoFile
    /\ reader.seen = {prov[fs.target]}
    /\ lastOk # PyNone

RECURSIVE StrKeysOnly(_)
StrKeysOnly(v) ==
    CASE v[1] = "list" -> \A i \in 1..Len(v[2]) : StrKeysOnly(v[2][i])
      [] v[1] = "dict" ->
            \A i \in 1..Len(v[2]) :
                v[2][i][1][1] = "str" /\ StrKeysOnly(v[2][i][2])
      [] OTHER -> TRUE

\* C5 as stated: load_json returns a value equal to the value of the latest
\* successful save, whatever the default and whatever saves failed since.
C5_Original ==
    QuietLoad =>
        \/ reader.res.kind = "value" /\ PyEq(reader.res.val, lastOk)
        \/ reader.res.kind = "error" /\ reader.res.cause = "OSError"

\* C5 amended: load_json returns a value equal to the value of the latest
\* successful save when all the mapping keys of that value are strings,
\* whatever the default and whatever saves failed since.
C5_RoundTripStrKeys ==
    (QuietLoad /\ StrKeysOnly(lastOk)) =>
        \/ reader.res.kind = "value" /\ PyEq(reader.res.val, lastOk)
        \/ reader.res.kind = "error" /\ reader.res.cause = "OSError"

\* a load after a successful save of {"a": 1} followed by a failed save
C5_Witness ==
    /\ QuietLoad /\ calls = 2
    /\ reader.res.kind = "value"
    /\ lastOk = PyDict(<< <<PyStr("a"), PyInt(1)>> >>)
    /\ reader.default # PyNone
    /\ fs.tmpdir # {}

\* C6: a load_json running while a save_json is in flight returns the
\* complete value of some content the target held during the load (the
\* previous one, the default if there was none, or the new one), and fails
\* to decode only content that was malformed before the save.
C6_ReaderSeesOldOrNew ==
    Loaded =>
        /\ reader.res.kind = "value"
              => \E pv \in reader.seen :
                    /\ pv.by \in {"absent", "valid", "save"}
                    /\ reader.res.val = DecodedFrom(pv, reader.default)
        /\ (reader.res.kind = "error" /\ reader.res.cause = "ValueError")
              => \E pv \in reader.seen : pv.by = "malformed"
        /\ reader.res.kind \in {"value", "error"}

\* load_json opened the file, the replace happened, then it read: it returns
\* the previous value while the save is in its cleanup
C6_Witness ==
    /\ Loaded
    /\ reader.res.kind = "value"
    /\ Cardinality(reader.seen) = 2
    /\ \E p \in Procs : saver[p].pc = "finally"
    /\ reader.res.val = PyList(<<PyStr("a")>>)

C8_State ==
    (Loaded /\ AbsentProv \in reader.seen)
        => /\ reader.res.kind = "value"
           /\ (reader.default = PyNone => reader.res.val = PyDict(<<>>))
           /\ (reader.default # PyNone => reader.res.val = reader.default)

C8_Step == (reader' # reader /\ saver' = saver) => View(fs') = View(fs)

\* C8: with no file at the target path load_json returns the default as
\* given ({} when none is given), and no step of load_json changes a file
\* or the directory.
C8_AbsentGivesDefault == []C8_State /\ [][C8_Step]_vars

\* an explicit empty list came back for an absent file
C8_Witness ==
    /\ Loaded /\ AbsentProv \in reader.seen
    /\ reader.default = PyList(<<>>)
    /\ reader.res.val = PyList(<<>>)

OtherCause(cause) == IF cause = "ValueError" THEN "OSError" ELSE "ValueError"

\* a load_json result drawn from the file that was opened, not the default
FromFile ==
    \/ reader.res.kind = "error"
    \/ \E pv \in reader.seen :
          /\ pv.by \in {"valid", "save"}
          /\ reader.res.val = DecodedFrom(pv, reader.default)

C10_ModeFollowsPrivate ==
    /\ (fs.target # NoFile /\ prov[fs.target].by = "save")
          => fs.inode[fs.target].mode =
                IF prov[fs.target].private THEN ModePrivate ELSE ModePublic
    /\ \A i \in fs.tmpdir \cup ({fs.target} \ {NoFile}) :
          (prov[i].by \in {"temp", "save"} /\ prov[i].private)
              => fs.inode[i].mode = ModePrivate

\* a private save replaced a target that other users could read
C10_Witness ==
    /\ fs.target # NoFile
    /\ prov[fs.target].by = "save" /\ prov[fs.target].private
    /\ \E p \in Procs : /\ saver[p].pc = "finally"
                        /\ saver[p].before.target # <<>>
                        /\ saver[p].before.target[1].mode # ModePrivate
\* C7: the bytes save_json produces for a value are the bytes it produced
\* for the same value before, also when the entries of its mappings, at any
\* depth, were inserted in another order.
C7_SameBytesAnyOrder ==
    (probe.first # <<>> /\ probe.out # <<>>) => probe.out = probe.first

\* {k: {..two entries..}} was serialized again after the inner entries
\* changed places
C7_Witness ==
    /\ probe.out # <<>> /\ JsonDumps(probe.v) = probe.out
    /\ probe.v # probe.v0
    /\ IsDict(probe.v) /\ Len(probe.v[2]) = 1
    /\ IsDict(probe.v[2][1][2]) /\ Len(probe.v[2][1][2][2]) = 2

\* C11: a failure of os.remove in the cleanup changes no outcome: a call
\* whose replace succeeded returns normally, and a call that failed with
\* WriteError still raises that WriteError, whether or not the removal of
\* its temp file failed.
C11_CleanupNeverChangesOutcome ==
    \A p \in Procs :
        Returned(p) =>
            /\ (fs.target = saver[p].callno /\ prov[fs.target].by = "save")
                  => saver[p].err = ""
            /\ saver[p].fault # "" => saver[p].err = "WriteError"
            /\ saver[p].cleanup = "failed"
                  => /\ saver[p].fault \in {"close", "chmod", "replace"}
                     /\ saver[p].err = SaveErrorFor("OSError")

\* the replace failed, and then the removal of the temp file failed too
C11_Witness ==
    \E p \in Procs :
        /\ Returned(p) /\ saver[p].cleanup = "failed"
        /\ saver[p].fault = "replace"
        /\ saver[p].callno \in fs.tmpdir

\* ------------------------------------------------- properties of the finder
Range(q) == {q[i] : i \in 1..Len(q)}
IsPrefix(a, b) == Len(a) <= Len(b) /\ SubSeq(b, 1, Len(a)) = a
IsContainer(v) == IsDict(v) \/ IsList(v)
KeyEncodes(k) == ~OrjsonDumpsRaises(PyDict(<< <<k, PyNone>> >>))
Member(obj_path, k) == Append(obj_path, <<".", KeyRender(k)>>)
Element(obj_path, idx) == Append(obj_path, <<"[", idx>>)
KeyMarker(obj_path, k) == Append(obj_path, <<"<key: ", KeyRender(k)>>)
FoundAll == finder.pc = "done"

\* every sub-value of v with its path, v itself at obj_path
RECURSIVE Nodes(_, _)
Nodes(v, obj_path) ==
    {<<v, obj_path>>} \cup
    (CASE v[1] = "list" ->
            UNION {Nodes(v[2][i], Element(obj_path, i - 1)) : i \in 1..Len(v[2])}
       [] v[1] = "dict" ->
            UNION {Nodes(v[2][i][2], Member(obj_path, v[2][i][1])) :
                      i \in 1..Len(v[2])}
       [] OTHER -> {})

\* the sub-values reached from v through list elements and through dict
\* entries whose keys encode
RECURSIVE Reach(_, _)
Reach(v, obj_path) ==
    {<<v, obj_path>>} \cup
    (CASE v[1] = "list" ->
            UNION {Reach(v[2][i], Element(obj_path, i - 1)) : i \in 1..Len(v[2])}
       [] v[1] = "dict" ->
            UNION {Reach(v[2][i][2], Member(obj_path, v[2][i][1])) :
                      i \in {j \in 1..Len(v[2]) : KeyEncodes(v[2][j][1])}}
       [] OTHER -> {})

\* the number of nodes of v, and of a sequence of values
RECURSIVE Size(_)
RECURSIVE SizeAll(_)
Size(v) ==
    CASE v[1] = "list" -> 1 + SizeAll(v[2])
      [] v[1] = "dict" -> 1 + SizeAll([i \in 1..Len(v[2]) |-> v[2][i][2]])
      [] OTHER -> 1

SizeAll(vs) == IF Len(vs) = 0 THEN 0 ELSE Size(Head(vs)) + SizeAll(Tail(vs))

Children(v) ==
    CASE v[1] = "list" -> Range(v[2])
      [] v[1] = "dict" -> {v[2][i][2] : i \in 1..Len(v[2])}
      [] OTHER -> {}

IsMarker(f) == Len(f) > 1 /\ f[Len(f)][1] = "<key: "
Front(f) == SubSeq(f, 1, Len(f) - 1)

\* C12: every path in the list is sound and respects pruning: a leaf finding
\* names a sub-value that is neither dict nor list and that orjson.dumps
\* rejects, a key marker names a key of a dict at that path that orjson.dumps
\* rejects, and no finding lies at or below a sub-value that orjson.dumps
\* accepts; for {"a": 1, "b": BAD, "c": [1, BAD]} the list is [$.b, $.c[1]].
C12_FindingsSoundAndPruned ==
    LET all == Nodes(finder.bad_data, <<"$">>)
    IN  /\ \A f \in Range(finder.invalid) :
              /\ IF IsMarker(f)
                 THEN \E n \in all :
                         /\ n[2] = Front(f) /\ IsDict(n[1])
                         /\ \E i \in 1..Len(n[1][2]) :
                               /\ KeyMarker(n[2], n[1][2][i][1]) = f
                               /\ ~KeyEncodes(n[1][2][i][1])
                 ELSE \E n \in all :
                         /\ n[2] = f
                         /\ ~IsContainer(n[1])
                         /\ OrjsonDumpsRaises(n[1])
              /\ \A n \in all :
                    ~OrjsonDumpsRaises(n[1]) => ~IsPrefix(n[2], f)
        /\ (FoundAll /\ finder.bad_data = FindExample)
              => finder.invalid = <<Member(<<"$">>, PyStr("b")),
                                    Element(Member(<<"$">>, PyStr("c")), 1)>>

\* the list for {"a": 1, "b": BAD, "c": [1, BAD]} is complete
C12_Witness ==
    /\ FoundAll /\ finder.bad_data = FindExample
    /\ Len(finder.invalid) = 2
    /\ Len(finder.popped) = 6

\* the paths the finder has had in its deque or in its list so far
Touched ==
    Range(finder.popped) \cup Range(finder.invalid)
    \cup {finder.to_process[i][2] : i \in 1..Len(finder.to_process)}

\* C13: for an entry of a dict whose key orjson.dumps rejects the list holds
\* exactly one finding, the dict's path followed by <key: KEY>, and nothing
\* at or below the entry's value is ever enqueued or reported, also when
\* that value is itself unencodable; the entries of the same dict whose
\* keys encode are still dequeued and inspected.
C13_KeyFailureSubsumesEntry ==
    \A n \in Reach(finder.bad_data, <<"$">>) :
        IsDict(n[1]) =>
            \A i \in 1..Len(n[1][2]) :
                LET k == n[1][2][i][1]
                IN  IF KeyEncodes(k)
                    THEN (FoundAll /\ OrjsonDumpsRaises(n[1]))
                            => Member(n[2], k) \in Range(finder.popped)
                    ELSE /\ \A t \in Touched : ~IsPrefix(Member(n[2], k), t)
                         /\ Cardinality({j \in 1..Len(finder.invalid) :
                                finder.invalid[j] = KeyMarker(n[2], k)})
                               = IF n[2] \in Range(finder.popped) THEN 1 ELSE 0

\* {object(): object(), "a": object()}: one marker for the first entry, the
\* second entry's value inspected and reported
C13_Witness ==
    /\ FoundAll
    /\ finder.bad_data = PyDict(<< <<Obj, Obj>>, <<PyStr("a"), Obj>> >>)
    /\ finder.invalid = <<KeyMarker(<<"$">>, Obj), Member(<<"$">>, PyStr("a"))>>
    /\ finder.popped = << <<"$">>, Member(<<"$">>, PyStr("a"))>>

\* C14: the message of every error load_json raises (decode failure, read
\* failure) and of every error save_json raises (SerializationError,
\* WriteError for a failure in temp creation, write, chmod or replace) holds
\* the target file path.
C14_ErrorsCarryPath ==
    /\ (Loaded /\ reader.res.kind = "error")
          => "filename" \in LoadMessage(reader.res)
    /\ \A p \in Procs :
          (Returned(p) /\ saver[p].err # "")
              => "filename" \in SaveMessage(saver[p])

\* C15: when save_json fails with SerializationError for a value, the paths
\* in its message are the list find_paths_unserializable_data gives for that
\* value, and that list is not empty.
C15_PathsNamed ==
    \A p \in Procs :
        (Returned(p) /\ saver[p].err = "SerializationError")
            => /\ saver[p].paths = find_paths_unserializable_data(saver[p].data)
               /\ Len(saver[p].paths) > 0

\* C16: the list is complete over what the finder inspects: for every
\* sub-value reached from the root through list elements and through dict
\* entries whose keys encode, a leaf (neither dict nor list) that
\* orjson.dumps rejects has its path in the list, a dict key that
\* orjson.dumps rejects has its marker in the list, and a dict or list that
\* orjson.dumps rejects has a finding beneath it.
C16_FindingsComplete ==
    FoundAll =>
        \A n \in Reach(finder.bad_data, <<"$">>) :
            /\ (~IsContainer(n[1]) /\ OrjsonDumpsRaises(n[1]))
                  => n[2] \in Range(finder.invalid)
            /\ IsDict(n[1])
                  => \A i \in 1..Len(n[1][2]) :
                        ~KeyEncodes(n[1][2][i][1])
                            => KeyMarker(n[2], n[1][2][i][1])
                                  \in Range(finder.invalid)
            /\ (IsContainer(n[1]) /\ OrjsonDumpsRaises(n[1]))
                  => \E f \in Range(finder.invalid) :
                        IsPrefix(n[2], f) /\ f # n[2]

\* [{1: 1}, object()]: a key marker inside the first element and the
\* second element itself, beneath a list that fails only through them
C16_Witness ==
    /\ FoundAll
    /\ finder.bad_data = PyList(<<PyDict(<< <<PyInt(1), PyInt(1)>> >>), Obj>>)
    /\ finder.invalid =
          <<KeyMarker(Element(<<"$">>, 0), PyInt(1)), Element(<<"$">>, 1)>>

\* C17: the finder works breadth first: items leave the deque in
\* non-decreasing depth, the deque holds its items in non-decreasing depth
\* with the elements of one list in index order, and the findings are in
\* non-decreasing depth of the item that was being processed when each was
\* recorded (a key marker counting at the depth of its dict).
C17_BreadthFirst ==
    LET q == finder.to_process
    IN  /\ \A i, j \in 1..Len(finder.popped) :
              i < j => Depth(finder.popped[i]) <= Depth(finder.popped[j])
        /\ \A i \in 1..Len(finder.popped), j \in 1..Len(q) :
              Depth(finder.popped[i]) <= Depth(q[j][2])
        /\ \A i, j \in 1..Len(q) :
              i < j => /\ Depth(q[i][2]) <= Depth(q[j][2])
                       /\ (/\ Front(q[i][2]) = Front(q[j][2])
                           /\ q[i][2][Len(q[i][2])][1] = "["
                           /\ q[j][2][Len(q[j][2])][1] = "[")
                             => q[i][2][Len(q[i][2])][2]
                                   < q[j][2][Len(q[j][2])][2]
        /\ \A i, j \in 1..Len(finder.at) :
              i < j => finder.at[i] <= finder.at[j]
        /\ \A i \in 1..Len(finder.invalid) :
              finder.at[i] = IF IsMarker(finder.invalid[i])
                             THEN Depth(Front(finder.invalid[i]))
                             ELSE Depth(finder.invalid[i])

\* [[object()], object()]: the finding of the second element (depth 1) comes
\* before the finding inside the first element (depth 2)
C17_Witness ==
    /\ FoundAll
    /\ finder.bad_data = PyList(<<PyList(<<Obj>>), Obj>>)
    /\ finder.invalid = <<Element(<<"$">>, 1), Element(Element(<<"$">>, 0), 0)>>
    /\ finder.at = <<1, 2>>

\* no position of the value is dequeued twice
C18_State ==
    \A i, j \in 1..Len(finder.popped) :
        i # j => finder.popped[i] # finder.popped[j]

\* what a pass of the loop appends to the deque are children of the item it
\* dequeued, each with fewer nodes than that item
C18_Step ==
    (finder.pc = "loop" /\ finder'.popped # finder.popped)
        => LET obj_path == finder'.popped[Len(finder'.popped)]
               item == CHOOSE it \in Range(finder.to_process) :
                           it[2] = obj_path
               kept == Len(finder.to_process) - 1
               q == finder'.to_process
           IN  /\ Len(q) >= kept
               /\ \A k \in (kept + 1)..Len(q) :
                     /\ q[k][1] \in Children(item[1])
                     /\ Size(q[k][1]) < Size(item[1])
                     /\ Front(q[k][2]) = obj_path

\* C18: a call of the finder terminates: the deque becomes empty and the
\* list is returned, every item enqueued is a strict sub-value of the item
\* whose processing enqueued it, and no position is dequeued twice.
C18_Terminates ==
    /\ []C18_State
    /\ [][C18_Step]_vars
    /\ (finder.pc = "loop" ~> (FoundAll /\ finder.to_process = <<>>))

\* [[[object()]]]: four passes of the loop, one per node, then the return
C18_Witness ==
    /\ FoundAll /\ finder.to_process = <<>>
    /\ finder.bad_data = PyList(<<PyList(<<PyList(<<Obj>>)>>)>>)
    /\ Len(finder.popped) = 4

\* a step of thread p leaves the temp file of every other running call
\* linked, with its content and mode
C19_Own ==
    \A p, q \in Procs :
        (/\ p # q
         /\ saver'[p] # saver[p] /\ saver'[q] = saver[q]
         /\ saver[q].pc \notin {"idle", "done"}
         /\ saver[q].callno \in fs.tmpdir)
            => /\ saver[q].callno \in fs'.tmpdir
               /\ fs'.inode[saver[q].callno] = fs.inode[saver[q].callno]

\* the target changes only by the replace step of a call, to the complete
\* serialization of that call's data
C19_Target ==
    IF fs'.target # fs.target
    THEN \E p \in Procs :
            /\ saver[p].pc = "replace" /\ saver'[p].pc = "finally"
            /\ fs'.target = saver[p].callno
            /\ fs'.inode[fs'.target].data = JsonDumps(saver[p].data)
    ELSE fs.target # NoFile
            => fs'.inode[fs.target].data = fs.inode[fs.target].data

\* both calls are over and no temp file is left
C19_State ==
    (calls = Cardinality(ConcProcs) /\ \A p \in Procs : saver[p].pc = "idle")
        => fs.tmpdir = {}

\* C19: of two interleaved save_json calls on one target path each writes
\* its own temp file, which the other never writes, renames or removes
\* (also not in its cleanup); the target only ever changes to the complete
\* bytes of the call whose replace ran, so after both it holds those of the
\* later replace; and after both calls no temp file is left.
C19_InterleavedSavesIsolated ==
    /\ []C19_State
    /\ [][C19_Own /\ C19_Target]_vars

\* every temp file lies in the directory of the target path, however the
\* path was spelled
C20_State ==
    \A i \in fs.tmpdir, filename \in Filenames :
        fs.inode[i].link[1] = DirOf(OsPathSplit(filename)[1])

\* the target changes only by a replace from a temp file of the target's
\* directory that holds the call's full json_data and is closed, and the
\* file at the target path is never written or re-moded in place
C20_Step ==
    IF fs'.target # fs.target
    THEN \E p \in Procs :
            /\ saver[p].pc = "replace" /\ saver'[p].pc = "finally"
            /\ fs'.target \in fs.tmpdir
            /\ fs.inode[fs'.target].link[1]
                  = DirOf(OsPathSplit(saver[p].filename)[1])
            /\ fs.inode[fs'.target].data = saver[p].json_data
            /\ fs'.inode[fs'.target].data = saver[p].json_data
            /\ fs'.target \notin OpenIds(saver, reader)
    ELSE fs.target # NoFile
            => /\ fs'.inode[fs.target].data = fs.inode[fs.target].data
               /\ fs'.inode[fs.target].mode = fs.inode[fs.target].mode

\* C20: the temp file of a save_json call is created in the directory of
\* the target path, also when the path has no directory part, and the
\* replace is only ever made from that temp file once its full content is
\* written and it is closed; the target is never written in place and never
\* replaced from another directory.
C20_TempBesideTarget == []C20_State /\ [][C20_Step]_vars

\* a call given the bare file name has replaced the target
C20_Witness ==
    \E p \in Procs :
        /\ saver[p].filename = BareFilename
        /\ saver[p].pc = "finally" /\ saver[p].err = ""
        /\ fs.target = saver[p].callno
        /\ fs.inode[fs.target].data = JsonDumps(saver[p].data)

\* the stepwise loop and the loop as save_json calls it give the same list
FindAgrees ==
    finder.pc = "done"
        => finder.invalid = find_paths_unserializable_data(finder.bad_data)
====
